---- MODULE Spec2Model ----
(***************************************************************************)
(* Model of the SPOS scheduler core (os_scheduler.c) of the repository:    *)
(* process table, program registry, critical-section guard, os_exec, the   *)
(* boot functions and the timer ISR.  Every operator is translated from    *)
(* the C source; the parts of the repository that are not in the source    *)
(* tree (defines.h, the context-switch macros, the strategy functions)     *)
(* are modelled from the specification and marked as such.                 *)
(***************************************************************************)
EXTENDS Integers, Sequences, FiniteSets, TLC

(***************************************************************************)
(* Sizes.  The table capacities and the stack size are scaled down; the    *)
(* widths of the C integer types are kept.                                 *)
(***************************************************************************)
MAX_NUMBER_OF_PROCESSES == 3
MAX_NUMBER_OF_PROGRAMS == 4
\* bytes of one process stack region: one seeded or saved frame and one byte
STACK_SIZE_PROC == 36
\* bytes of the stack that main() runs on until os_startScheduler
STACK_SIZE_MAIN == 36
\* largest true nesting depth of critical sections the exploration follows
MaxNest == 258
\* largest value of criticalSectionCount that process code in the scheduler
\* specifications nests to (the counter itself is not capped)
MaxCS == 1

\* uint8_t criticalSectionCount: arithmetic is modulo 2^8
UINT8 == 256
\* the loop bound of the zeroed context bytes in os_exec
CONTEXT_BYTES == 33
\* 0b00000010, the OCIE2A bit of TIMSK2
OCIE2A_MASK == 2
\* 0b10000000, the global interrupt enable bit of SREG
GIEB_MASK == 128
\* sentinel returned by os_exec on failure (all-ones ProcessID)
INVALID_PROCESS == 255
\* priority given to autostarted programs
DEFAULT_PRIORITY == 2
NULL == 0

ProcessIDs == 0 .. (MAX_NUMBER_OF_PROCESSES - 1)
ProgramIDs == 0 .. (MAX_NUMBER_OF_PROGRAMS - 1)

\* enum ProcessState
OS_PS_UNUSED == "OS_PS_UNUSED"
OS_PS_READY == "OS_PS_READY"
OS_PS_RUNNING == "OS_PS_RUNNING"
OS_PS_BLOCKED == "OS_PS_BLOCKED"

\* enum SchedulingStrategy
OS_SS_EVEN == "OS_SS_EVEN"
OS_SS_RANDOM == "OS_SS_RANDOM"
OS_SS_ROUND_ROBIN == "OS_SS_ROUND_ROBIN"
OS_SS_INACTIVE_AGING == "OS_SS_INACTIVE_AGING"
OS_SS_RUN_TO_COMPLETION == "OS_SS_RUN_TO_COMPLETION"
Strategies ==
  {OS_SS_EVEN, OS_SS_RANDOM, OS_SS_ROUND_ROBIN, OS_SS_INACTIVE_AGING,
   OS_SS_RUN_TO_COMPLETION}

(***************************************************************************)
(* Bit operations on machine words.                                        *)
(***************************************************************************)
RECURSIVE BitAnd(_, _)
BitAnd(a, b) ==
  IF a = 0 \/ b = 0 THEN 0
  ELSE (a % 2) * (b % 2) + 2 * BitAnd(a \div 2, b \div 2)

RECURSIVE BitOr(_, _)
BitOr(a, b) ==
  IF a = 0 THEN b
  ELSE IF b = 0 THEN a
  ELSE (IF a % 2 = 1 \/ b % 2 = 1 THEN 1 ELSE 0) + 2 * BitOr(a \div 2, b \div 2)

RECURSIVE ShiftLeft(_, _)
ShiftLeft(a, n) == IF n = 0 THEN a ELSE 2 * ShiftLeft(a, n - 1)

(***************************************************************************)
(* Memory layout.  Addresses grow upwards; stacks grow downwards.  The     *)
(* process stacks lie below the stack of main().                           *)
(***************************************************************************)
BOTTOM_OF_PROCS_STACK == MAX_NUMBER_OF_PROCESSES * STACK_SIZE_PROC
PROCESS_STACK_BOTTOM(pid) == BOTTOM_OF_PROCS_STACK - pid * STACK_SIZE_PROC
BOTTOM_OF_MAIN_STACK == BOTTOM_OF_PROCS_STACK + STACK_SIZE_MAIN
Addresses == 1 .. BOTTOM_OF_MAIN_STACK
\* the stack region that belongs to process pid
StackRegion(pid) ==
  (PROCESS_STACK_BOTTOM(pid) - STACK_SIZE_PROC + 1) .. PROCESS_STACK_BOTTOM(pid)
MainStackRegion == (BOTTOM_OF_PROCS_STACK + 1) .. BOTTOM_OF_MAIN_STACK

\* Entry point (flash address) of the program with the given id; the idle
\* program is program 0.
ProgramAddress(programID) == 258 + 514 * programID

(***************************************************************************)
(* State.                                                                  *)
(***************************************************************************)
VARIABLES
  os_processes,               \* Process os_processes[MAX_NUMBER_OF_PROCESSES]
  os_programs,                \* Program *os_programs[MAX_NUMBER_OF_PROGRAMS]
  os_autostart,               \* uint16_t os_autostart
  currentProc,                \* ProcessID currentProc
  currentSchedulingStrategy,  \* SchedulingStrategy currentSchedulingStrategy
  criticalSectionCount,       \* uint8_t criticalSectionCount
  TIMSK2,                     \* timer 2 interrupt mask register
  SREG,                       \* status register: the global interrupt enable bit
  SP,                         \* hardware stack pointer
  PS,                         \* the object os_startScheduler assigns to
  mem,                        \* RAM of the stacks, address -> byte
  cpu,                        \* program counter and the 33 context bytes
  phase,                      \* "boot" until os_startScheduler, then "run"
  call,                       \* history: the operation executed last
  nest,                       \* history: true nesting depth of the current run
  execOK,                     \* history: successful os_exec calls since init
  fresh,                      \* history: slots exec'd and never dispatched
  PINC,                       \* input pins of port C, the buttons
  inCall,                     \* the call in progress: its position and locals
  saved                       \* history: SP and registers of preempted slots

vars ==
  <<os_processes, os_programs, os_autostart, currentProc,
    currentSchedulingStrategy, criticalSectionCount, TIMSK2, SREG, SP, PS,
    mem, cpu, phase, call, nest, execOK, fresh, PINC, inCall, saved>>

\* the hardware registers and the counter the critical-section guard works on
Guard == [count |-> criticalSectionCount, TIMSK2 |-> TIMSK2, SREG |-> SREG,
          errors |-> 0]

Masked(timsk2) == BitAnd(timsk2, OCIE2A_MASK) = 0

ZeroContext == [i \in 1 .. CONTEXT_BYTES |-> 0]

(***************************************************************************)
(* Critical-section guard.                                                 *)
(***************************************************************************)
\* the error-reporting collaborator: the report is counted
os_errorPStr(g) == [g EXCEPT !.errors = @ + 1]

\* an enter that counts but leaves the scheduler interrupt unmasked
os_enterCriticalSection_nomask(g) ==
  LET GlobalInterruptEnableBit == BitAnd(g.SREG, GIEB_MASK)
      sreg1 == BitAnd(g.SREG, 127)
      count1 == (g.count + 1) % UINT8
  IN  [g EXCEPT !.count = count1,
                !.SREG = BitOr(sreg1, GlobalInterruptEnableBit)]

os_enterCriticalSection(g) ==
  LET GlobalInterruptEnableBit == BitAnd(g.SREG, GIEB_MASK)
      sreg1 == BitAnd(g.SREG, 127)
      count1 == (g.count + 1) % UINT8
      timsk1 == BitAnd(g.TIMSK2, 253)
  IN  [g EXCEPT !.count = count1, !.TIMSK2 = timsk1,
                !.SREG = BitOr(sreg1, GlobalInterruptEnableBit)]

\* a leave that counts down and never touches the interrupt mask
os_leaveCriticalSection_never(g) ==
  LET GlobalInterruptEnableBit == BitAnd(g.SREG, GIEB_MASK)
      count1 == (g.count - 1) % UINT8
  IN  [g EXCEPT !.count = count1,
                !.SREG = BitOr(BitAnd(g.SREG, 127), GlobalInterruptEnableBit)]

\* a leave that unmasks the scheduler interrupt on every call
os_leaveCriticalSection_eager(g) ==
  LET GlobalInterruptEnableBit == BitAnd(g.SREG, GIEB_MASK)
      count1 == (g.count - 1) % UINT8
  IN  [g EXCEPT !.count = count1, !.TIMSK2 = BitOr(g.TIMSK2, OCIE2A_MASK),
                !.SREG = BitOr(BitAnd(g.SREG, 127), GlobalInterruptEnableBit)]

os_leaveCriticalSection(g) ==
  LET GlobalInterruptEnableBit == BitAnd(g.SREG, GIEB_MASK)
      g1 == [g EXCEPT !.SREG = BitAnd(g.SREG, 127)]
      \* uint8_t: the decrement of 0 stores 255
      g2 == [g1 EXCEPT !.count = (g1.count - 1) % UINT8]
      g3 == IF g2.count < 0 THEN os_errorPStr(g2)
            ELSE IF g2.count = 0
                 THEN [g2 EXCEPT !.TIMSK2 = BitOr(g2.TIMSK2, OCIE2A_MASK)]
                 ELSE g2
  IN  [g3 EXCEPT !.SREG = BitOr(g3.SREG, GlobalInterruptEnableBit)]

\* history of the true nesting depth: a run starts with an enter at counter 0;
\* wrapped records that the run went deeper than the counter can count
NestEnter(n, count) ==
  IF n.depth > 0 \/ count = 0
  THEN [depth |-> n.depth + 1, wrapped |-> n.wrapped \/ n.depth + 1 >= UINT8 + 1]
  ELSE n
NestLeave(n) ==
  IF n.depth > 1 THEN [n EXCEPT !.depth = @ - 1]
  ELSE [depth |-> 0, wrapped |-> FALSE]

(***************************************************************************)
(* Program registry.                                                       *)
(***************************************************************************)
\* a lookup that takes an id past the registry for program 0
os_lookupProgramFunction_clamped(programs, programID) ==
  IF programID >= MAX_NUMBER_OF_PROGRAMS THEN programs[0]
  ELSE programs[programID]

os_lookupProgramFunction(programs, programID) ==
  IF programID >= MAX_NUMBER_OF_PROGRAMS THEN NULL ELSE programs[programID]

os_checkAutostartProgram(autostart, programID) ==
  BitAnd(autostart, ShiftLeft(1, programID)) # 0

(***************************************************************************)
(* Process launch.  st is [procs, mem, guard]; the result adds ret, the    *)
(* value os_exec returns.                                                  *)
(***************************************************************************)
\* the initial stack frame: return address, low byte first, then the zeroed
\* context bytes; yields the memory and the stack cursor after the last write
\* a frame with the return address stored high byte first
SeedFrame_highFirst(m, bottom, funktionszeiger, zeros) ==
  LET lowbyte == BitAnd(funktionszeiger, 255) % UINT8
      highbyte == (funktionszeiger \div UINT8) % UINT8
  IN  [mem |-> [a \in DOMAIN m |->
                  IF a = bottom THEN highbyte
                  ELSE IF a = bottom - 1 THEN lowbyte
                  ELSE IF a \in (bottom - 1 - zeros) .. (bottom - 2) THEN 0
                  ELSE m[a]],
       sp |-> bottom - 2 - zeros]

\* a frame written one byte above the stack bottom
SeedFrame_above(m, bottom, funktionszeiger, zeros) ==
  LET lowbyte == BitAnd(funktionszeiger, 255) % UINT8
      highbyte == (funktionszeiger \div UINT8) % UINT8
  IN  [mem |-> [a \in DOMAIN m |->
                  IF a = bottom + 1 THEN lowbyte
                  ELSE IF a = bottom THEN highbyte
                  ELSE IF a \in (bottom - zeros) .. (bottom - 1) THEN 0
                  ELSE m[a]],
       sp |-> bottom - 1 - zeros]

SeedFrame(m, bottom, funktionszeiger, zeros) ==
  LET lowbyte == BitAnd(funktionszeiger, 255) % UINT8
      highbyte == (funktionszeiger \div UINT8) % UINT8
  IN  [mem |-> [a \in DOMAIN m |->
                  IF a = bottom THEN lowbyte
                  ELSE IF a = bottom - 1 THEN highbyte
                  ELSE IF a \in (bottom - 1 - zeros) .. (bottom - 2) THEN 0
                  ELSE m[a]],
       sp |-> bottom - 2 - zeros]

RECURSIVE os_exec_scan(_, _, _, _)
os_exec_scan(st, programID, priority, pid) ==
  IF pid >= MAX_NUMBER_OF_PROCESSES
  THEN \* no unused slot
       [procs |-> st.procs, mem |-> st.mem,
        guard |-> os_leaveCriticalSection(st.guard), ret |-> INVALID_PROCESS]
  ELSE IF st.procs[pid].state = OS_PS_UNUSED
  THEN LET funktionszeiger == os_lookupProgramFunction(os_programs, programID)
       IN  IF funktionszeiger = NULL
           THEN [procs |-> st.procs, mem |-> st.mem,
                 guard |-> os_leaveCriticalSection(st.guard),
                 ret |-> INVALID_PROCESS]
           ELSE LET f == SeedFrame(st.mem, PROCESS_STACK_BOTTOM(pid),
                                   funktionszeiger, CONTEXT_BYTES)
                IN  [procs |-> [st.procs EXCEPT
                                  ![pid] = [state |-> OS_PS_READY,
                                            priority |-> priority,
                                            progID |-> programID,
                                            sp |-> f.sp]],
                     mem |-> f.mem,
                     guard |-> os_leaveCriticalSection(st.guard),
                     ret |-> pid]
  ELSE os_exec_scan(st, programID, priority, pid + 1)

\* a scan that starts at slot 1
os_exec_skipfirst(st, programID, priority) ==
  os_exec_scan([st EXCEPT !.guard = os_enterCriticalSection(st.guard)],
               programID, priority, 1)

os_exec(st, programID, priority) ==
  os_exec_scan([st EXCEPT !.guard = os_enterCriticalSection(st.guard)],
               programID, priority, 0)

(***************************************************************************)
(* Initial states.  Globals are zero-initialised; program 0 (idle) is      *)
(* registered with its autostart bit set by PROGRAM(0, AUTOSTART); the     *)
(* other registry slots, autostart bits and the RAM contents are inputs.   *)
(***************************************************************************)
RECURSIVE BitsOf(_)
BitsOf(S) ==
  IF S = {} THEN 0
  ELSE LET i == CHOOSE x \in S : TRUE IN ShiftLeft(1, i) + BitsOf(S \ {i})

OtherPrograms == ProgramIDs \ {0}
Registry(S) ==
  [i \in ProgramIDs |-> IF i = 0 \/ i \in S THEN ProgramAddress(i) ELSE NULL]
Registries == {Registry(S) : S \in SUBSET OtherPrograms}
Autostarts == {BitsOf(S \cup {0}) : S \in SUBSET OtherPrograms}

\* the null pointer to a table element
NullSlot == [array |-> "NULL", index |-> 0]

NoCall == [op |-> "none", programID |-> 0, priority |-> 0, ret |-> 0,
           errors |-> 0, invoked |-> <<>>, arg |-> 0, access |-> {},
           slot |-> NullSlot]

\* no call in progress
NoInCall == [at |-> "none", line |-> 0, pid |-> 0, programID |-> 0,
             priority |-> 0, funktionszeiger |-> 0,
             GlobalInterruptEnableBit |-> 0, count |-> 0, SREG |-> 0,
             ret |-> 0]

\* nothing recorded for a slot that was not preempted since it last ran
NoSave == [sp |-> 0, cpu |-> [pc |-> 0, ctx |-> <<>>]]

InitWith(registries, autostarts, timsks, sregs, fills) ==
  /\ os_processes = [p \in ProcessIDs |->
                       [state |-> OS_PS_UNUSED, priority |-> 0, progID |-> 0,
                        sp |-> 0]]
  /\ os_programs \in registries
  /\ os_autostart \in autostarts
  /\ currentProc = 0
  /\ currentSchedulingStrategy = OS_SS_EVEN
  /\ criticalSectionCount = 0
  /\ TIMSK2 \in timsks
  /\ SREG \in sregs
  /\ SP = BOTTOM_OF_MAIN_STACK - (STACK_SIZE_MAIN - 1)
  /\ PS = 0
  /\ \E fill \in fills : mem = [a \in Addresses |-> fill]
  /\ cpu = [pc |-> 0, ctx |-> ZeroContext]
  /\ phase = "boot"
  /\ call = NoCall
  /\ nest = [depth |-> 0, wrapped |-> FALSE]
  /\ execOK = 0
  /\ fresh = {}
  /\ PINC = UINT8 - 1
  /\ inCall = NoInCall
  /\ saved = [p \in ProcessIDs |-> NoSave]

(***************************************************************************)
(* Operations called by the code that runs on the processor.               *)
(***************************************************************************)
EnterCriticalSection ==
  LET g == os_enterCriticalSection(Guard)
  IN  /\ criticalSectionCount' = g.count
      /\ TIMSK2' = g.TIMSK2
      /\ SREG' = g.SREG
      /\ nest' = NestEnter(nest, criticalSectionCount)
      /\ call' = [NoCall EXCEPT !.op = "os_enterCriticalSection",
                                !.errors = g.errors]
      /\ UNCHANGED <<PINC, inCall, saved>>
      /\ UNCHANGED <<os_processes, os_programs, os_autostart, currentProc,
                     currentSchedulingStrategy, SP, PS, mem, cpu, phase,
                     execOK, fresh>>

LeaveCriticalSection ==
  LET g == os_leaveCriticalSection(Guard)
  IN  /\ criticalSectionCount' = g.count
      /\ TIMSK2' = g.TIMSK2
      /\ SREG' = g.SREG
      /\ nest' = NestLeave(nest)
      /\ call' = [NoCall EXCEPT !.op = "os_leaveCriticalSection",
                                !.errors = g.errors]
      /\ UNCHANGED <<PINC, inCall, saved>>
      /\ UNCHANGED <<os_processes, os_programs, os_autostart, currentProc,
                     currentSchedulingStrategy, SP, PS, mem, cpu, phase,
                     execOK, fresh>>

(***************************************************************************)
(* The critical-section guard alone: any sequence of enter and leave.      *)
(***************************************************************************)
InitCS == InitWith({Registry({})}, {1}, {0, 2, 5, 7}, {0, GIEB_MASK}, {0})

NextCS ==
  \/ nest.depth < MaxNest /\ EnterCriticalSection
  \/ LeaveCriticalSection

SpecCS == InitCS /\ [][NextCS]_vars

(***************************************************************************)
(* Context switch.  AVR push stores at SP and decrements; pop increments   *)
(* and loads.  An interrupt pushes the program counter, low byte first;    *)
(* saveContext pushes the 33 context bytes; restoreContext pops them and   *)
(* returns with reti, which pops the program counter and enables            *)
(* interrupts.                                                             *)
(***************************************************************************)
PushPC(m, sp, pc) ==
  [mem |-> [m EXCEPT ![sp] = pc % UINT8, ![sp - 1] = (pc \div UINT8) % UINT8],
   sp |-> sp - 2]

saveContext(m, sp, ctx) ==
  [mem |-> [a \in DOMAIN m |->
              IF a \in (sp - CONTEXT_BYTES + 1) .. sp THEN ctx[sp - a + 1]
              ELSE m[a]],
   sp |-> sp - CONTEXT_BYTES]

restoreContext(m, sp) ==
  LET top == sp + CONTEXT_BYTES
  IN  [cpu |-> [pc |-> m[top + 1] * UINT8 + m[top + 2],
                ctx |-> [i \in 1 .. CONTEXT_BYTES |-> m[top - i + 1]]],
       sp |-> top + 2]

(***************************************************************************)
(* Scheduling strategies: external functions that return the id of a slot  *)
(* that is not UNUSED.                                                     *)
(***************************************************************************)
StrategyResults(procs, current) ==
  {p \in ProcessIDs : procs[p].state # OS_PS_UNUSED}

\* a dispatch that takes round robin for random
ISR_strategy_swapped(strategy) ==
  IF strategy = OS_SS_EVEN THEN <<"os_Scheduler_Even">>
  ELSE IF strategy = OS_SS_RANDOM THEN <<"os_Scheduler_Random">>
  ELSE IF strategy = OS_SS_ROUND_ROBIN THEN <<"os_Scheduler_Random">>
  ELSE IF strategy = OS_SS_INACTIVE_AGING THEN <<"os_Scheduler_InactiveAging">>
  ELSE <<"os_Scheduler_RunToCompletion">>

\* the strategy functions the ISR calls for a value of the selector
ISR_strategy(strategy) ==
  IF strategy = OS_SS_EVEN THEN <<"os_Scheduler_Even">>
  ELSE IF strategy = OS_SS_RANDOM THEN <<"os_Scheduler_Random">>
  ELSE IF strategy = OS_SS_ROUND_ROBIN THEN <<"os_Scheduler_RoundRobin">>
  ELSE IF strategy = OS_SS_INACTIVE_AGING THEN <<"os_Scheduler_InactiveAging">>
  ELSE <<"os_Scheduler_RunToCompletion">>

\* the function a value of the selector names
StrategyFunction(strategy) ==
  CASE strategy = OS_SS_EVEN -> "os_Scheduler_Even"
    [] strategy = OS_SS_RANDOM -> "os_Scheduler_Random"
    [] strategy = OS_SS_ROUND_ROBIN -> "os_Scheduler_RoundRobin"
    [] strategy = OS_SS_INACTIVE_AGING -> "os_Scheduler_InactiveAging"
    [] strategy = OS_SS_RUN_TO_COMPLETION -> "os_Scheduler_RunToCompletion"

(***************************************************************************)
(* The timer ISR.  t is [procs, mem, cur, sp, cpu].                        *)
(***************************************************************************)
\* an interrupt entry that does not store the stack cursor
ISR_save_nocursor(t) ==
  LET e == PushPC(t.mem, t.sp, t.cpu.pc)
      s == saveContext(e.mem, e.sp, t.cpu.ctx)
      procs2 == [t.procs EXCEPT ![t.cur].state = OS_PS_READY]
  IN  [t EXCEPT !.procs = procs2, !.mem = s.mem, !.sp = s.sp]

\* interrupt entry up to the call of the strategy (lines 60 to 71); the
\* handler then runs on the ISR stack (line 68), which holds no modelled data
ISR_save(t) ==
  LET e == PushPC(t.mem, t.sp, t.cpu.pc)
      s == saveContext(e.mem, e.sp, t.cpu.ctx)
      procs1 == [t.procs EXCEPT ![t.cur].sp = s.sp]
      procs2 == [procs1 EXCEPT ![t.cur].state = OS_PS_READY]
  IN  [t EXCEPT !.procs = procs2, !.mem = s.mem, !.sp = s.sp]

\* a dispatch that forgets to mark the chosen process
ISR_dispatch_unmarked(t, next) ==
  LET r == restoreContext(t.mem, t.procs[next].sp)
  IN  [t EXCEPT !.cur = next, !.sp = r.sp, !.cpu = r.cpu]

\* from the strategy's result to the return from the interrupt (lines 93 to 99)
ISR_dispatch(t, next) ==
  LET procs3 == [t.procs EXCEPT ![next].state = OS_PS_RUNNING]
      r == restoreContext(t.mem, procs3[next].sp)
  IN  [t EXCEPT !.procs = procs3, !.cur = next, !.sp = r.sp, !.cpu = r.cpu]

(***************************************************************************)
(* Boot.                                                                   *)
(***************************************************************************)
\* the autostart loop; st.rets collects what the os_exec calls return
RECURSIVE os_initScheduler_autostart(_, _)
os_initScheduler_autostart(st, progID) ==
  IF progID >= MAX_NUMBER_OF_PROGRAMS THEN st
  ELSE IF os_checkAutostartProgram(os_autostart, progID)
  THEN LET r == os_exec(st, progID, DEFAULT_PRIORITY)
       IN  os_initScheduler_autostart(
             [procs |-> r.procs, mem |-> r.mem, guard |-> r.guard,
              rets |-> Append(st.rets, r.ret)], progID + 1)
  ELSE os_initScheduler_autostart(st, progID + 1)

\* an initialisation that keeps the states of the slots
os_initScheduler_noreset(st) ==
  os_initScheduler_autostart(
    [procs |-> st.procs, mem |-> st.mem, guard |-> st.guard, rets |-> <<>>], 0)

os_initScheduler(st) ==
  os_initScheduler_autostart(
    [procs |-> [p \in ProcessIDs |->
                  [st.procs[p] EXCEPT !.state = OS_PS_UNUSED]],
     mem |-> st.mem, guard |-> st.guard, rets |-> <<>>], 0)

\* t is [procs, mem, cur, sp, cpu, ps]; the stack cursor of slot 0 is
\* assigned to PS, and restoreContext runs on the stack pointer as it is
os_startScheduler(t) ==
  LET procs1 == [t.procs EXCEPT ![0].state = OS_PS_RUNNING]
      r == restoreContext(t.mem, t.sp)
  IN  [t EXCEPT !.cur = 0, !.procs = procs1, !.ps = procs1[0].sp,
                !.sp = r.sp, !.cpu = r.cpu]

(***************************************************************************)
(* Operations on the scheduler.                                            *)
(***************************************************************************)
Launch == [procs |-> os_processes, mem |-> mem, guard |-> Guard]
Machine == [procs |-> os_processes, mem |-> mem, cur |-> currentProc,
            sp |-> SP, cpu |-> cpu, ps |-> PS]

InterruptsEnabled == BitAnd(SREG, GIEB_MASK) # 0

\* the arguments os_exec is called with: every program id, one id past the
\* registry, and two priorities
ExecPrograms == 0 .. MAX_NUMBER_OF_PROGRAMS
ExecPriorities == {DEFAULT_PRIORITY, UINT8 - 1}

\* os_exec called by main() or by the running process; its enter and leave
\* are a nested pair for the history of the true depth
ExecCall(programs, priorities) ==
  \E programID \in programs, priority \in priorities :
    LET r == os_exec(Launch, programID, priority)
    IN  /\ os_processes' = r.procs
        /\ mem' = r.mem
        /\ criticalSectionCount' = r.guard.count
        /\ TIMSK2' = r.guard.TIMSK2
        /\ SREG' = r.guard.SREG
        /\ nest' = NestLeave(NestEnter(nest, criticalSectionCount))
        /\ call' = [NoCall EXCEPT !.op = "os_exec", !.programID = programID,
                                  !.priority = priority, !.ret = r.ret,
                                  !.errors = r.guard.errors]
        /\ execOK' = IF r.ret # INVALID_PROCESS THEN execOK + 1 ELSE execOK
        /\ fresh' = IF r.ret # INVALID_PROCESS THEN fresh \cup {r.ret}
                    ELSE fresh
        /\ UNCHANGED <<PINC, inCall, saved>>
        /\ UNCHANGED <<os_programs, os_autostart, currentProc,
                       currentSchedulingStrategy, SP, PS, cpu, phase>>

Successes(rets) == {i \in 1 .. Len(rets) : rets[i] # INVALID_PROCESS}

InitScheduler ==
  /\ phase \in {"boot", "initialised"}
  /\ LET r == os_initScheduler(Launch)
     IN  /\ os_processes' = r.procs
         /\ mem' = r.mem
         /\ criticalSectionCount' = r.guard.count
         /\ TIMSK2' = r.guard.TIMSK2
         /\ SREG' = r.guard.SREG
         /\ nest' = IF r.rets = <<>> THEN nest
                    ELSE NestLeave(NestEnter(nest, criticalSectionCount))
         /\ call' = [NoCall EXCEPT !.op = "os_initScheduler",
                                   !.errors = r.guard.errors]
         /\ execOK' = Cardinality(Successes(r.rets))
         /\ fresh' = {r.rets[i] : i \in Successes(r.rets)}
  /\ phase' = "initialised"
  /\ UNCHANGED <<PINC, inCall, saved>>
  /\ UNCHANGED <<os_programs, os_autostart, currentProc,
                 currentSchedulingStrategy, SP, PS, cpu>>

StartScheduler ==
  /\ phase \in {"boot", "initialised"}
  /\ LET r == os_startScheduler(Machine)
     IN  /\ currentProc' = r.cur
         /\ os_processes' = r.procs
         /\ PS' = r.ps
         /\ SP' = r.sp
         /\ cpu' = r.cpu
  \* restoreContext returns with reti
  /\ SREG' = BitOr(SREG, GIEB_MASK)
  /\ phase' = IF phase = "initialised" THEN "run" ELSE "run-uninitialised"
  /\ call' = [NoCall EXCEPT !.op = "os_startScheduler"]
  /\ fresh' = fresh \ {0}
  /\ UNCHANGED <<PINC, inCall, saved>>
  /\ UNCHANGED <<os_programs, os_autostart, currentSchedulingStrategy,
                 criticalSectionCount, TIMSK2, mem, nest, execOK>>

Running == phase \in {"run", "run-uninitialised"}

SetSchedulingStrategy ==
  \E strategy \in Strategies :
    /\ currentSchedulingStrategy' = strategy
    /\ call' = [NoCall EXCEPT !.op = "os_setSchedulingStrategy"]
    /\ UNCHANGED <<PINC, inCall, saved>>
    /\ UNCHANGED <<os_processes, os_programs, os_autostart, currentProc,
                   criticalSectionCount, TIMSK2, SREG, SP, PS, mem, cpu,
                   phase, nest, execOK, fresh>>

\* The timer interrupt: taken when interrupts are enabled globally and the
\* compare-match interrupt of timer 2 is not masked.  The hardware clears
\* the global enable bit for the handler and reti sets it again.
Tick ==
  /\ InterruptsEnabled
  /\ ~Masked(TIMSK2)
  /\ LET t == ISR_save(Machine)
         invoked == ISR_strategy(currentSchedulingStrategy)
     IN  \E next \in StrategyResults(t.procs, t.cur) :
           LET d == ISR_dispatch(t, next)
           IN  /\ os_processes' = d.procs
               /\ mem' = d.mem
               /\ currentProc' = d.cur
               /\ SP' = d.sp
               /\ cpu' = d.cpu
               /\ call' = [NoCall EXCEPT !.op = "ISR", !.ret = next,
                                         !.invoked = invoked]
               /\ fresh' = fresh \ {next}
               /\ saved' = [p \in ProcessIDs |->
                              IF p = next THEN NoSave
                              ELSE IF p = currentProc
                                   THEN [sp |-> SP, cpu |-> cpu]
                                   ELSE saved[p]]
  /\ UNCHANGED <<PINC, inCall>>
  /\ UNCHANGED <<os_programs, os_autostart, currentSchedulingStrategy,
                 criticalSectionCount, TIMSK2, SREG, PS, phase, nest, execOK>>

\* the running code executes instructions: it leaves its entry point and
\* changes registers and flags
DirtyContext == [i \in 1 .. CONTEXT_BYTES |-> i]
Compute ==
  /\ Running
  /\ cpu.ctx # DirtyContext
  /\ cpu' = [pc |-> (cpu.pc + 1) % (UINT8 * UINT8), ctx |-> DirtyContext]
  /\ call' = [NoCall EXCEPT !.op = "compute"]
  /\ UNCHANGED <<PINC, inCall, saved>>
  /\ UNCHANGED <<os_processes, os_programs, os_autostart, currentProc,
                 currentSchedulingStrategy, criticalSectionCount, TIMSK2,
                 SREG, SP, PS, mem, phase, nest, execOK, fresh>>

(***************************************************************************)
(* Boot: main() calls os_exec and os_initScheduler in any order and then   *)
(* os_startScheduler, for every registry and every autostart mask.         *)
(* Interrupts are disabled until os_startScheduler.                        *)
(***************************************************************************)
InitBoot == InitWith(Registries, Autostarts, {OCIE2A_MASK}, {0}, {0, 170})

NextBoot ==
  \/ /\ phase = "boot"
     /\ ExecCall({0, MAX_NUMBER_OF_PROGRAMS - 1}, {UINT8 - 1})
  \/ InitScheduler
  \/ StartScheduler

SpecBoot == InitBoot /\ [][NextBoot]_vars

(***************************************************************************)
(* Sequences of os_exec calls with every argument, on a fresh table and on *)
(* a table that os_initScheduler has reset, for registries with idle and   *)
(* at most one more program.                                               *)
(***************************************************************************)
SmallRegistries ==
  {Registry(S) : S \in {T \in SUBSET OtherPrograms : Cardinality(T) <= 1}}

InitExec == InitWith(SmallRegistries, {1}, {0, OCIE2A_MASK}, {0}, {170})

NextExec ==
  \/ ExecCall(ExecPrograms, ExecPriorities)
  \/ InitScheduler

SpecExec == InitExec /\ [][NextExec]_vars

(***************************************************************************)
(* The running system: boot, then ticks interleaved with the operations    *)
(* the running code calls.                                                 *)
(***************************************************************************)
Init == InitWith({Registry({1})}, {1, 3}, {OCIE2A_MASK}, {0}, {170})

Next ==
  \/ InitScheduler
  \/ StartScheduler
  \/ Tick
  \/ Running /\ Compute
  \/ Running /\ ExecCall({1, MAX_NUMBER_OF_PROGRAMS}, {DEFAULT_PRIORITY})
  \/ Running /\ (criticalSectionCount < MaxCS \/ criticalSectionCount = UINT8 - 1)
             /\ EnterCriticalSection
  \/ Running /\ criticalSectionCount <= MaxCS /\ LeaveCriticalSection

Spec == Init /\ [][Next]_vars

(***************************************************************************)
(* Strategy selection: ticks interleaved with os_setSchedulingStrategy.    *)
(***************************************************************************)
NextStrategy ==
  \/ InitScheduler
  \/ StartScheduler
  \/ Tick
  \/ SetSchedulingStrategy
  \/ Running /\ Compute

SpecStrategy == Init /\ [][NextStrategy]_vars

(***************************************************************************)
(* Claims about the critical-section guard (checked under SpecCS).         *)
(***************************************************************************)
\* C3 as stated: in a properly nested run of N enters and N leaves started
\* at depth 0, for any N, the scheduler interrupt is masked from the first
\* enter until the Nth leave and is unmasked by the Nth leave.
C3_MaskedForAnyDepth ==
  [][/\ nest'.depth > 0 => Masked(TIMSK2')
     /\ (nest.depth = 1 /\ nest'.depth = 0) => ~Masked(TIMSK2')]_vars

\* C3 amended: the same for runs that nest at most 256 deep, the depths the
\* 8 bit counter tells apart from depth 0.
C3_MaskedUpTo256 ==
  [][/\ (nest'.depth > 0 /\ ~nest'.wrapped) => Masked(TIMSK2')
     /\ (nest.depth = 1 /\ nest'.depth = 0 /\ ~nest.wrapped)
          => ~Masked(TIMSK2')]_vars

\* an inner leave of a run that went 255 deep has happened and the interrupt
\* is still masked
C3_Witness ==
  /\ call.op = "os_leaveCriticalSection"
  /\ nest.depth = UINT8 - 2
  /\ ~nest.wrapped
  /\ Masked(TIMSK2)

\* C4: a leave at counter 0 reports the error exactly once and the counter
\* does not wrap around.
C4_ExcessLeaveReported ==
  [][(call'.op = "os_leaveCriticalSection" /\ criticalSectionCount = 0)
       => (call'.errors = 1 /\ criticalSectionCount' = 0)]_vars

\* C5: between calls of the guard, the scheduler interrupt is masked if and
\* only if the counter is positive.
C5_MaskedIffCounting ==
  call.op \in {"os_enterCriticalSection", "os_leaveCriticalSection"}
    => (Masked(TIMSK2) <=> criticalSectionCount > 0)

(***************************************************************************)
(* Claims about os_exec (checked under SpecExec).                          *)
(***************************************************************************)
Registered(programID) ==
  programID \in ProgramIDs /\ os_programs[programID] # NULL

UnusedSlots == {p \in ProcessIDs : os_processes[p].state = OS_PS_UNUSED}

\* C1: every os_exec call returns a slot that was UNUSED before and is READY
\* after the call with the priority and program id of the call, or returns
\* INVALID_PROCESS; with a registered program it fails only when no slot is
\* UNUSED; the successes since the table was all UNUSED never exceed
\* MAX_NUMBER_OF_PROCESSES.
C1_ExecAllocates ==
  [][call'.op = "os_exec" =>
       /\ call'.ret # INVALID_PROCESS =>
            /\ call'.ret \in UnusedSlots
            /\ os_processes'[call'.ret].state = OS_PS_READY
            /\ os_processes'[call'.ret].priority = call'.priority
            /\ os_processes'[call'.ret].progID = call'.programID
       /\ (call'.ret = INVALID_PROCESS /\ Registered(call'.programID))
            => UnusedSlots = {}
       /\ execOK' <= MAX_NUMBER_OF_PROCESSES]_vars

\* the table has been filled by successful calls and a call with a
\* registered program has failed
C1_Witness ==
  /\ call.op = "os_exec"
  /\ call.ret = INVALID_PROCESS
  /\ Registered(call.programID)
  /\ execOK = MAX_NUMBER_OF_PROCESSES
  /\ \A p \in ProcessIDs : os_processes[p].state = OS_PS_READY

\* C2: os_exec with a program id that is out of range or not registered
\* returns INVALID_PROCESS and leaves the process table unchanged.
C2_UnregisteredFails ==
  [][(call'.op = "os_exec" /\ ~Registered(call'.programID)) =>
       (call'.ret = INVALID_PROCESS /\ os_processes' = os_processes)]_vars

\* a call with an unregistered id in range has failed while a slot was free
C2_Witness ==
  /\ call.op = "os_exec"
  /\ call.programID \in ProgramIDs
  /\ ~Registered(call.programID)
  /\ call.ret = INVALID_PROCESS
  /\ UnusedSlots # {}
  /\ execOK > 0

(***************************************************************************)
(* Claims about the running system (checked under Spec).                   *)
(***************************************************************************)
RunningSlots == {p \in ProcessIDs : os_processes[p].state = OS_PS_RUNNING}

\* C6: after os_startScheduler exactly one slot is RUNNING in every state
\* outside the ISR.
C6_OneRunning == Running => Cardinality(RunningSlots) = 1

\* a tick has switched to a process other than idle while idle stays READY
C6_Witness ==
  /\ call.op = "ISR"
  /\ currentProc # 0
  /\ os_processes[currentProc].state = OS_PS_RUNNING
  /\ os_processes[0].state = OS_PS_READY

\* the frame os_exec leaves for slot p: entry point, low byte at the stack
\* bottom, 33 zero bytes below, cursor 35 below the bottom
FrameSeeded(p) ==
  LET bottom == PROCESS_STACK_BOTTOM(p)
      entry == os_programs[os_processes[p].progID]
  IN  /\ mem[bottom] = entry % 256
      /\ mem[bottom - 1] = entry \div 256
      /\ \A a \in (bottom - 34) .. (bottom - 2) : mem[a] = 0
      /\ os_processes[p].sp = bottom - 35

\* C7: a slot that os_exec has filled keeps the seeded frame until it is
\* dispatched, and the ISR that dispatches it first starts it at the entry
\* point of its program with 33 zero context bytes and an empty stack.
C7_FirstDispatchAtEntry ==
  [][/\ \A p \in fresh' : FrameSeeded(p)'
     /\ (call'.op = "ISR" /\ call'.ret \in fresh) =>
          /\ cpu'.pc = os_programs[os_processes[call'.ret].progID]
          /\ cpu'.ctx = [i \in 1 .. 33 |-> 0]
          /\ SP' = PROCESS_STACK_BOTTOM(call'.ret)]_vars

\* the ISR has just started a process of program 1 at its entry point
C7_Witness ==
  /\ call.op = "ISR"
  /\ currentProc # 0
  /\ os_processes[currentProc].progID = 1
  /\ cpu.pc = ProgramAddress(1)
  /\ cpu.ctx = ZeroContext
  /\ SP = PROCESS_STACK_BOTTOM(currentProc)

(***************************************************************************)
(* Claim about the strategy selector (checked under SpecStrategy).         *)
(***************************************************************************)
\* C8: every tick calls exactly one strategy function, the one named by the
\* value the selector has when the tick begins, and the tick does not change
\* the selector.
C8_StrategyOfTick ==
  [][call'.op = "ISR" =>
       /\ call'.invoked = <<StrategyFunction(currentSchedulingStrategy)>>
       /\ currentSchedulingStrategy' = currentSchedulingStrategy]_vars

\* a tick has run after the selector was set to round robin
C8_Witness ==
  /\ call.op = "ISR"
  /\ currentSchedulingStrategy = OS_SS_ROUND_ROBIN
  /\ call.invoked = <<"os_Scheduler_RoundRobin">>

(***************************************************************************)
(* Claims about boot (checked under SpecBoot).                             *)
(***************************************************************************)
AutostartBit(programID) == (os_autostart \div (2 ^ programID)) % 2 = 1
AutostartPrograms == {i \in ProgramIDs : Registered(i) /\ AutostartBit(i)}
UsedSlots == ProcessIDs \ UnusedSlots
SlotsOf(programID) == {p \in UsedSlots : os_processes[p].progID = programID}

\* C9 as stated: after os_initScheduler the slots in use are READY and
\* correspond one-to-one to the registered programs with the autostart bit.
C9_AutostartAll ==
  call.op = "os_initScheduler" =>
    /\ \A p \in UsedSlots : os_processes[p].state = OS_PS_READY
    /\ \A p \in UsedSlots : os_processes[p].progID \in AutostartPrograms
    /\ \A i \in AutostartPrograms : Cardinality(SlotsOf(i)) = 1

\* the autostart programs that find a slot: those with fewer than
\* MAX_NUMBER_OF_PROCESSES autostart programs before them
AutostartStarted ==
  {i \in AutostartPrograms :
     Cardinality({j \in AutostartPrograms : j < i}) < MAX_NUMBER_OF_PROCESSES}

\* C9 amended: the slots in use are READY and correspond one-to-one to the
\* first MAX_NUMBER_OF_PROCESSES registered autostart programs.
C9_AutostartFirst ==
  call.op = "os_initScheduler" =>
    /\ \A p \in UsedSlots : os_processes[p].state = OS_PS_READY
    /\ \A p \in UsedSlots : os_processes[p].progID \in AutostartStarted
    /\ \A i \in AutostartStarted : Cardinality(SlotsOf(i)) = 1

\* autostart bits {0, 2} with every program registered, on a table whose
\* last slot had been in use before: programs 0 and 2 are READY
C9_Witness ==
  /\ call.op = "os_initScheduler"
  /\ os_autostart = 5
  /\ \A i \in ProgramIDs : Registered(i)
  /\ UsedSlots = {0, 1}
  /\ os_processes[0].progID = 0
  /\ os_processes[1].progID = 2
  /\ os_processes[MAX_NUMBER_OF_PROCESSES - 1].priority = UINT8 - 1

\* C10: after os_initScheduler and os_startScheduler, currentProc is 0, slot
\* 0 is RUNNING and is the idle process, the stack pointer is the one of
\* slot 0 (its cursor with the seeded frame popped) and the idle entry point
\* executes.
C10_IdleStarted ==
  phase = "run" =>
    /\ currentProc = 0
    /\ os_processes[0].state = OS_PS_RUNNING
    /\ os_processes[0].progID = 0
    /\ SP = os_processes[0].sp + 35
    /\ cpu.pc = os_programs[0]

(***************************************************************************)
(* Buttons.  Port C reads 0 on a pin whose button is pressed; pins 2..5    *)
(* belong to the JTAG interface.                                           *)
(***************************************************************************)
RECURSIVE ShiftRight(_, _)
ShiftRight(a, n) == IF n = 0 THEN a ELSE ShiftRight(a \div 2, n - 1)

\* ~x of an 8 bit register
BitNot(x) == UINT8 - 1 - x

os_getInput(pinc) ==
  LET a == BitAnd(BitNot(pinc), 195)
      b == ShiftRight(BitAnd(a, 192), 4)
  IN  BitOr(a, b)

\* the environment presses and releases buttons and drives the JTAG pins
Buttons(pincs) ==
  /\ PINC' \in pincs
  /\ call' = [NoCall EXCEPT !.op = "buttons"]
  /\ UNCHANGED <<inCall, saved>>
  /\ UNCHANGED <<os_processes, os_programs, os_autostart, currentProc,
                 currentSchedulingStrategy, criticalSectionCount, TIMSK2,
                 SREG, SP, PS, mem, cpu, phase, nest, execOK, fresh>>

GetInput ==
  /\ call' = [NoCall EXCEPT !.op = "os_getInput", !.ret = os_getInput(PINC)]
  /\ UNCHANGED <<PINC, inCall, saved>>
  /\ UNCHANGED <<os_processes, os_programs, os_autostart, currentProc,
                 currentSchedulingStrategy, criticalSectionCount, TIMSK2,
                 SREG, SP, PS, mem, cpu, phase, nest, execOK, fresh>>

InitInput == InitWith({Registry({})}, {1}, {OCIE2A_MASK}, {0}, {0})

NextInput ==
  \/ Buttons(0 .. UINT8 - 1)
  \/ GetInput

SpecInput == InitInput /\ [][NextInput]_vars

(***************************************************************************)
(* Claims about the buttons (checked under SpecInput).                     *)
(***************************************************************************)
Bit(x, i) == ShiftRight(x, i) % 2

\* C11: for every value of port C, os_getInput returns a value whose bits
\* 0 and 1 are the inverted port bits 0 and 1, whose bits 2 and 3 are the
\* inverted port bits 6 and 7, and in which no other bit is set; the JTAG
\* pins have no influence, and with only the buttons on port bits 7 and 0
\* pressed the value has exactly bits 0 and 3 set.
C11_ButtonsInLowBits ==
  call.op = "os_getInput" =>
    /\ Bit(call.ret, 0) = 1 - Bit(PINC, 0)
    /\ Bit(call.ret, 1) = 1 - Bit(PINC, 1)
    /\ Bit(call.ret, 2) = 1 - Bit(PINC, 6)
    /\ Bit(call.ret, 3) = 1 - Bit(PINC, 7)
    /\ \A i \in 4 .. 7 : Bit(call.ret, i) = 0
    /\ \A other \in 0 .. UINT8 - 1 :
         BitAnd(other, 195) = BitAnd(PINC, 195) =>
           os_getInput(other) = call.ret
    /\ BitAnd(PINC, 195) = 66 => call.ret = 9

(***************************************************************************)
(* Stack checksum.                                                         *)
(***************************************************************************)
RECURSIVE BitXor(_, _)
BitXor(a, b) ==
  IF a = 0 THEN b
  ELSE IF b = 0 THEN a
  ELSE ((a + b) % 2) + 2 * BitXor(a \div 2, b \div 2)

\* the while loop: sp walks down from the stack bottom to the saved cursor
RECURSIVE os_getStackChecksum_loop(_, _, _, _)
os_getStackChecksum_loop(m, cursor, sp, sum) ==
  IF sp > cursor
  THEN os_getStackChecksum_loop(m, cursor, sp - 1, BitXor(sum, m[sp - 1]))
  ELSE sum

os_getStackChecksum(procs, m, pid) ==
  os_getStackChecksum_loop(m, procs[pid].sp, PROCESS_STACK_BOTTOM(pid),
                           m[PROCESS_STACK_BOTTOM(pid)])

\* called for the slot of a process whose stack cursor has been stored
GetStackChecksum ==
  \E pid \in ProcessIDs :
    /\ os_processes[pid].state # OS_PS_UNUSED
    /\ os_processes[pid].sp \in Addresses
    /\ call' = [NoCall EXCEPT !.op = "os_getStackChecksum", !.arg = pid,
                  !.ret = os_getStackChecksum(os_processes, mem, pid)]
    /\ UNCHANGED <<PINC, inCall, saved>>
    /\ UNCHANGED <<os_processes, os_programs, os_autostart, currentProc,
                   currentSchedulingStrategy, criticalSectionCount, TIMSK2,
                   SREG, SP, PS, mem, cpu, phase, nest, execOK, fresh>>

\* the running system, booted in the order of main(), with the checksum
\* taken at any time
InitChecksum == InitWith({Registry({1})}, {1, 3}, {OCIE2A_MASK}, {0}, {0, 170})

NextChecksum ==
  \/ InitScheduler
  \/ phase = "initialised" /\ StartScheduler
  \/ Tick
  \/ Running /\ Compute
  \/ Running /\ ExecCall({1}, {DEFAULT_PRIORITY})
  \/ GetStackChecksum

SpecChecksum == InitChecksum /\ [][NextChecksum]_vars

(***************************************************************************)
(* Claims about the stack checksum (checked under SpecChecksum).           *)
(***************************************************************************)
RECURSIVE XorOver(_, _)
XorOver(m, S) ==
  IF S = {} THEN 0
  ELSE LET a == CHOOSE x \in S : TRUE IN BitXor(m[a], XorOver(m, S \ {a}))

\* the bytes of pid's stack region from its bottom down to its saved cursor
SavedStack(pid) ==
  {a \in StackRegion(pid) : os_processes[pid].sp <= a}

\* C12: os_getStackChecksum(pid) returns the XOR of every byte of pid's
\* stack region from the stack bottom down to and including the byte at
\* pid's saved stack cursor, and changes no state.
C12_ChecksumOfSavedStack ==
  [][call'.op = "os_getStackChecksum" =>
       /\ call'.ret = XorOver(mem, SavedStack(call'.arg))
       /\ os_getStackChecksum(os_processes', mem', call'.arg) = call'.ret
       /\ UNCHANGED <<os_processes, os_programs, os_autostart, currentProc,
                      currentSchedulingStrategy, criticalSectionCount, TIMSK2,
                      SREG, SP, PS, mem, cpu, phase, PINC>>]_vars

(***************************************************************************)
(* The program registry and the slot getters.  Every operation reports in  *)
(* access the indices of the table elements it reads or writes.            *)
(***************************************************************************)
INVALID_PROGRAM == 255

\* what os_programs[slot] evaluates to; beyond is the content of the memory
\* that follows the array, which the build decides
os_programs_read(programs, beyond, slot) ==
  IF slot < MAX_NUMBER_OF_PROGRAMS THEN programs[slot] ELSE beyond

\* the while loop; its three conditions are evaluated from left to right
RECURSIVE os_registerProgram_loop(_, _, _, _, _)
os_registerProgram_loop(programs, program, beyond, slot, access) ==
  LET entry == os_programs_read(programs, beyond, slot)
  IN  IF entry # NULL /\ entry # program /\ slot < MAX_NUMBER_OF_PROGRAMS
      THEN os_registerProgram_loop(programs, program, beyond, slot + 1,
                                   access \cup {slot})
      ELSE [slot |-> slot, access |-> access \cup {slot}]

os_registerProgram(programs, program, beyond) ==
  LET l == os_registerProgram_loop(programs, program, beyond, 0, {})
  IN  IF l.slot >= MAX_NUMBER_OF_PROGRAMS
      THEN [programs |-> programs, ret |-> INVALID_PROGRAM,
            access |-> l.access]
      ELSE [programs |-> [programs EXCEPT ![l.slot] = program],
            ret |-> l.slot, access |-> l.access]

RECURSIVE os_lookupProgramID_loop(_, _, _, _)
os_lookupProgramID_loop(programs, program, i, access) ==
  IF i < MAX_NUMBER_OF_PROGRAMS
  THEN IF programs[i] = program
       THEN [ret |-> i, access |-> access \cup {i}]
       ELSE os_lookupProgramID_loop(programs, program, i + 1,
                                    access \cup {i})
  ELSE [ret |-> INVALID_PROGRAM, access |-> access]

os_lookupProgramID(programs, program) ==
  os_lookupProgramID_loop(programs, program, 0, {})

\* a pointer to an element of a table
os_getProcessSlot(pid) == [array |-> "os_processes", index |-> pid]
os_getProgramSlot(programID) == [array |-> "os_programs", index |-> programID]

\* the program functions: those of the PROGRAM declarations and one more
ProgramFunctions ==
  {ProgramAddress(i) : i \in 0 .. MAX_NUMBER_OF_PROGRAMS}

RegistryFrame ==
  /\ UNCHANGED <<PINC, inCall, saved>>
  /\ UNCHANGED <<os_processes, os_autostart, currentProc,
                 currentSchedulingStrategy, criticalSectionCount, TIMSK2,
                 SREG, SP, PS, mem, cpu, phase, nest, execOK, fresh>>

\* os_registerProgram is not used for the idle program
RegisterProgram ==
  \E program \in ProgramFunctions \ {ProgramAddress(0)},
     beyond \in {NULL, ProgramAddress(1)} :
    LET r == os_registerProgram(os_programs, program, beyond)
    IN  /\ os_programs' = r.programs
        /\ call' = [NoCall EXCEPT !.op = "os_registerProgram",
                      !.arg = program, !.ret = r.ret, !.access = r.access]
        /\ RegistryFrame

LookupProgramFunction ==
  \E programID \in 0 .. MAX_NUMBER_OF_PROGRAMS :
    /\ call' = [NoCall EXCEPT !.op = "os_lookupProgramFunction",
                  !.arg = programID,
                  !.ret = os_lookupProgramFunction(os_programs, programID),
                  !.access = IF programID >= MAX_NUMBER_OF_PROGRAMS
                             THEN {} ELSE {programID}]
    /\ UNCHANGED os_programs
    /\ RegistryFrame

LookupProgramID ==
  \E program \in ProgramFunctions :
    LET r == os_lookupProgramID(os_programs, program)
    IN  /\ call' = [NoCall EXCEPT !.op = "os_lookupProgramID",
                      !.arg = program, !.ret = r.ret, !.access = r.access]
        /\ UNCHANGED os_programs
        /\ RegistryFrame

GetProcessSlot ==
  \E pid \in 0 .. MAX_NUMBER_OF_PROCESSES :
    /\ call' = [NoCall EXCEPT !.op = "os_getProcessSlot", !.arg = pid,
                  !.slot = os_getProcessSlot(pid)]
    /\ UNCHANGED os_programs
    /\ RegistryFrame

GetProgramSlot ==
  \E programID \in 0 .. MAX_NUMBER_OF_PROGRAMS :
    /\ call' = [NoCall EXCEPT !.op = "os_getProgramSlot", !.arg = programID,
                  !.slot = os_getProgramSlot(programID)]
    /\ UNCHANGED os_programs
    /\ RegistryFrame

InitRegistry == InitWith(Registries, {1}, {OCIE2A_MASK}, {0}, {0})

NextRegistry ==
  \/ RegisterProgram
  \/ LookupProgramFunction
  \/ LookupProgramID
  \/ GetProcessSlot
  \/ GetProgramSlot

SpecRegistry == InitRegistry /\ [][NextRegistry]_vars

(***************************************************************************)
(* Claims about the registry (checked under SpecRegistry).                 *)
(***************************************************************************)
FreeSlots == {i \in ProgramIDs : os_programs[i] = NULL}
SlotsHolding(program) == {i \in ProgramIDs : os_programs[i] = program}
LowestOf(S) == CHOOSE i \in S : \A j \in S : i <= j

\* C13: os_registerProgram(p) returns the index p is already registered at,
\* consuming no slot, when p is registered; otherwise it writes p to the
\* free slot of lowest index and returns that index, or returns
\* INVALID_PROGRAM and leaves the registry unchanged when there is no free
\* slot.  It never clears or overwrites an occupied slot, and after every
\* success os_lookupProgramFunction of the returned index is p.
C13_RegisterOnce ==
  [][call'.op = "os_registerProgram" =>
       LET p == call'.arg
       IN  /\ SlotsHolding(p) # {} =>
                /\ call'.ret \in SlotsHolding(p)
                /\ os_programs' = os_programs
           /\ SlotsHolding(p) = {} /\ FreeSlots # {} =>
                /\ call'.ret = LowestOf(FreeSlots)
                /\ os_programs' = [os_programs EXCEPT ![call'.ret] = p]
           /\ SlotsHolding(p) = {} /\ FreeSlots = {} =>
                /\ call'.ret = INVALID_PROGRAM
                /\ os_programs' = os_programs
           /\ \A i \in ProgramIDs :
                os_programs[i] # NULL => os_programs'[i] = os_programs[i]
           /\ call'.ret # INVALID_PROGRAM =>
                os_lookupProgramFunction(os_programs', call'.ret) = p]_vars

\* C14: os_registerProgram, os_lookupProgramFunction, os_lookupProgramID,
\* os_getProcessSlot and os_getProgramSlot read and write no table element
\* outside 0..capacity-1; called with an index out of range, or to register
\* on a full registry, they return the sentinel (NULL or INVALID_PROGRAM).
C14_NoAccessBeyondTable ==
  [][/\ call'.access \subseteq ProgramIDs
     /\ (/\ call'.op = "os_registerProgram"
         /\ FreeSlots = {}
         /\ SlotsHolding(call'.arg) = {}) => call'.ret = INVALID_PROGRAM
     /\ (/\ call'.op = "os_lookupProgramFunction"
         /\ call'.arg \notin ProgramIDs) => call'.ret = NULL
     /\ (/\ call'.op = "os_getProcessSlot"
         /\ call'.arg \notin ProcessIDs) => call'.slot = NullSlot
     /\ (/\ call'.op = "os_getProgramSlot"
         /\ call'.arg \notin ProgramIDs) => call'.slot = NullSlot]_vars

(***************************************************************************)
(* The critical-section guard statement by statement, so that the timer    *)
(* interrupt can fall between any two statements of a call.                *)
(***************************************************************************)
\* the registers and the counter together with the local variable of the call
LocalGuard ==
  [count |-> criticalSectionCount, TIMSK2 |-> TIMSK2, SREG |-> SREG,
   errors |-> 0, GlobalInterruptEnableBit |-> inCall.GlobalInterruptEnableBit]

\* an enter that leaves the global interrupt enable bit as it is
os_enterCriticalSection_stmt_open(g, stmt) ==
  CASE stmt = 1 -> [g EXCEPT !.GlobalInterruptEnableBit =
                               BitAnd(g.SREG, GIEB_MASK)]
    [] stmt = 2 -> g
    [] stmt = 3 -> [g EXCEPT !.count = (g.count + 1) % UINT8]
    [] stmt = 4 -> [g EXCEPT !.TIMSK2 = BitAnd(g.TIMSK2, 253)]
    [] stmt = 5 -> [g EXCEPT !.SREG = BitOr(g.SREG, g.GlobalInterruptEnableBit)]

\* the five statements of os_enterCriticalSection
os_enterCriticalSection_stmt(g, stmt) ==
  CASE stmt = 1 -> [g EXCEPT !.GlobalInterruptEnableBit =
                               BitAnd(g.SREG, GIEB_MASK)]
    [] stmt = 2 -> [g EXCEPT !.SREG = BitAnd(g.SREG, 127)]
    [] stmt = 3 -> [g EXCEPT !.count = (g.count + 1) % UINT8]
    [] stmt = 4 -> [g EXCEPT !.TIMSK2 = BitAnd(g.TIMSK2, 253)]
    [] stmt = 5 -> [g EXCEPT !.SREG = BitOr(g.SREG, g.GlobalInterruptEnableBit)]

\* the five statements of os_leaveCriticalSection; the fourth is the if/else
os_leaveCriticalSection_stmt(g, stmt) ==
  CASE stmt = 1 -> [g EXCEPT !.GlobalInterruptEnableBit =
                               BitAnd(g.SREG, GIEB_MASK)]
    [] stmt = 2 -> [g EXCEPT !.SREG = BitAnd(g.SREG, 127)]
    [] stmt = 3 -> [g EXCEPT !.count = (g.count - 1) % UINT8]
    [] stmt = 4 -> IF g.count < 0 THEN os_errorPStr(g)
                   ELSE IF g.count = 0
                        THEN [g EXCEPT !.TIMSK2 = BitOr(g.TIMSK2, OCIE2A_MASK)]
                        ELSE g
    [] stmt = 5 -> [g EXCEPT !.SREG = BitOr(g.SREG, g.GlobalInterruptEnableBit)]

GuardFunctions == {"os_enterCriticalSection", "os_leaveCriticalSection"}

GuardFrame ==
  /\ UNCHANGED <<PINC, saved>>
  /\ UNCHANGED <<os_processes, os_programs, os_autostart, currentProc,
                 currentSchedulingStrategy, SP, PS, mem, cpu, phase, nest,
                 execOK, fresh>>

\* the call: inCall keeps SREG and the counter as they are on entry
GuardCall ==
  \E function \in GuardFunctions :
    /\ inCall.at = "none"
    /\ function = "os_enterCriticalSection" =>
         criticalSectionCount < MaxCS \/ criticalSectionCount = UINT8 - 1
    /\ function = "os_leaveCriticalSection" => criticalSectionCount <= MaxCS
    /\ inCall' = [NoInCall EXCEPT !.at = function, !.line = 1, !.SREG = SREG,
                                  !.count = criticalSectionCount]
    /\ call' = [NoCall EXCEPT !.op = function]
    /\ UNCHANGED <<criticalSectionCount, TIMSK2, SREG>>
    /\ GuardFrame

\* one statement; the call returns after the fifth
GuardStatement ==
  /\ inCall.at \in GuardFunctions
  /\ LET g == IF inCall.at = "os_enterCriticalSection"
              THEN os_enterCriticalSection_stmt(LocalGuard, inCall.line)
              ELSE os_leaveCriticalSection_stmt(LocalGuard, inCall.line)
     IN  /\ criticalSectionCount' = g.count
         /\ TIMSK2' = g.TIMSK2
         /\ SREG' = g.SREG
         /\ inCall' = IF inCall.line = 5 THEN NoInCall
                      ELSE [inCall EXCEPT !.line = @ + 1,
                              !.GlobalInterruptEnableBit =
                                g.GlobalInterruptEnableBit]
         /\ call' = [NoCall EXCEPT !.op = inCall.at, !.arg = inCall.line,
                                   !.errors = g.errors]
  /\ GuardFrame

\* main() and, once the scheduler runs, the processes call the guard
InitGuard == InitWith({Registry({})}, {1}, {0, OCIE2A_MASK}, {0}, {170})

NextGuard ==
  \/ inCall.at = "none" /\ InitScheduler
  \/ inCall.at = "none" /\ StartScheduler
  \/ Tick
  \/ GuardCall
  \/ GuardStatement

SpecGuard == InitGuard /\ [][NextGuard]_vars

(***************************************************************************)
(* Claims about the guard's statements (checked under SpecGuard).          *)
(***************************************************************************)
\* C15: os_enterCriticalSection and os_leaveCriticalSection return with the
\* global interrupt enable bit of SREG as it was on entry, execute the
\* counter update and the mask update with that bit cleared, and no timer
\* interrupt falls between the counter update and the mask update.
C15_UpdatesWithInterruptsOff ==
  [][/\ (inCall.at \in GuardFunctions /\ inCall'.at = "none") =>
          SREG' = inCall.SREG
     /\ (inCall.at \in GuardFunctions /\ inCall.line \in {3, 4}
         /\ call'.op = inCall.at) => ~InterruptsEnabled
     /\ call'.op = "ISR" =>
          ~(inCall.at \in GuardFunctions /\ inCall.line = 4)]_vars

C15_Witness ==
  /\ inCall.at = "os_leaveCriticalSection"
  /\ inCall.line = 4
  /\ inCall.SREG = GIEB_MASK
  /\ criticalSectionCount = 0

(***************************************************************************)
(* os_exec statement by statement, so that the timer interrupt can fall    *)
(* between any two of its statements.  Statement 1 is the call of          *)
(* os_enterCriticalSection, 2 the search for an unused slot, 3 the lookup  *)
(* of the program, 4 the writes of state, priority and program id, 5 the   *)
(* writes of the initial stack frame, 6 the write of the stack cursor and  *)
(* 7 the call of os_leaveCriticalSection followed by the return.           *)
(***************************************************************************)
os_exec_stmt(st, c) ==
  CASE c.line = 1 ->
         [st |-> [st EXCEPT !.guard = os_enterCriticalSection(st.guard)],
          c |-> [c EXCEPT !.line = 2]]
    [] c.line = 2 ->
         LET unused == {p \in ProcessIDs : st.procs[p].state = OS_PS_UNUSED}
         IN  IF unused = {}
             THEN [st |-> st,
                   c |-> [c EXCEPT !.line = 7, !.ret = INVALID_PROCESS]]
             ELSE [st |-> st,
                   c |-> [c EXCEPT !.line = 3,
                            !.pid = CHOOSE p \in unused :
                                      \A q \in unused : p <= q]]
    [] c.line = 3 ->
         LET funktionszeiger ==
               os_lookupProgramFunction(os_programs, c.programID)
         IN  IF funktionszeiger = NULL
             THEN [st |-> st,
                   c |-> [c EXCEPT !.line = 7, !.ret = INVALID_PROCESS]]
             ELSE [st |-> st,
                   c |-> [c EXCEPT !.line = 4,
                                   !.funktionszeiger = funktionszeiger]]
    [] c.line = 4 ->
         [st |-> [st EXCEPT !.procs[c.pid].state = OS_PS_READY,
                            !.procs[c.pid].priority = c.priority,
                            !.procs[c.pid].progID = c.programID],
          c |-> [c EXCEPT !.line = 5]]
    [] c.line = 5 ->
         [st |-> [st EXCEPT !.mem =
                    SeedFrame(st.mem, PROCESS_STACK_BOTTOM(c.pid),
                              c.funktionszeiger, CONTEXT_BYTES).mem],
          c |-> [c EXCEPT !.line = 6]]
    [] c.line = 6 ->
         [st |-> [st EXCEPT !.procs[c.pid].sp =
                    SeedFrame(st.mem, PROCESS_STACK_BOTTOM(c.pid),
                              c.funktionszeiger, CONTEXT_BYTES).sp],
          c |-> [c EXCEPT !.line = 7, !.ret = c.pid]]
    [] c.line = 7 ->
         [st |-> [st EXCEPT !.guard = os_leaveCriticalSection(st.guard)],
          c |-> [c EXCEPT !.line = 0]]

\* the call: inCall keeps the arguments and the counter as it is on entry
ExecBegin(programs, priorities) ==
  \E programID \in programs, priority \in priorities :
    /\ inCall.at = "none"
    /\ inCall' = [NoInCall EXCEPT !.at = "os_exec", !.line = 1,
                                  !.programID = programID,
                                  !.priority = priority,
                                  !.count = criticalSectionCount]
    /\ call' = [NoCall EXCEPT !.op = "call os_exec",
                              !.programID = programID, !.priority = priority]
    /\ UNCHANGED <<PINC, saved>>
    /\ UNCHANGED <<os_processes, os_programs, os_autostart, currentProc,
                   currentSchedulingStrategy, criticalSectionCount, TIMSK2,
                   SREG, SP, PS, mem, cpu, phase, nest, execOK, fresh>>

\* one statement; the seventh returns
ExecStatement ==
  /\ inCall.at = "os_exec"
  /\ LET r == os_exec_stmt(Launch, inCall)
         returns == r.c.line = 0
         success == returns /\ r.c.ret # INVALID_PROCESS
     IN  /\ os_processes' = r.st.procs
         /\ mem' = r.st.mem
         /\ criticalSectionCount' = r.st.guard.count
         /\ TIMSK2' = r.st.guard.TIMSK2
         /\ SREG' = r.st.guard.SREG
         /\ inCall' = IF returns THEN NoInCall ELSE r.c
         /\ call' = IF returns
                    THEN [NoCall EXCEPT !.op = "os_exec",
                            !.programID = inCall.programID,
                            !.priority = inCall.priority, !.ret = r.c.ret,
                            !.errors = r.st.guard.errors]
                    ELSE [NoCall EXCEPT !.op = "os_exec statement",
                            !.arg = inCall.line]
         /\ execOK' = IF success THEN execOK + 1 ELSE execOK
         /\ fresh' = IF inCall.line = 4 THEN fresh \cup {inCall.pid}
                     ELSE fresh
  /\ UNCHANGED <<PINC, saved>>
  /\ UNCHANGED <<os_programs, os_autostart, currentProc,
                 currentSchedulingStrategy, SP, PS, cpu, phase, nest>>

\* boot, then ticks interleaved with the statements of os_exec calls; the
\* caller may be inside a critical section of its own or have left one
\* too often
NextExecStatements ==
  \/ inCall.at = "none" /\ InitScheduler
  \/ inCall.at = "none" /\ StartScheduler
  \/ Tick
  \/ ExecBegin({1, MAX_NUMBER_OF_PROGRAMS}, {DEFAULT_PRIORITY})
  \/ ExecStatement
  \/ /\ Running /\ inCall.at = "none" /\ criticalSectionCount < MaxCS
     /\ EnterCriticalSection
  \/ /\ Running /\ inCall.at = "none" /\ criticalSectionCount <= MaxCS
     /\ LeaveCriticalSection

SpecExecStatements == Init /\ [][NextExecStatements]_vars

(***************************************************************************)
(* Claims about os_exec's statements (checked under SpecExecStatements).   *)
(***************************************************************************)
\* C16: no timer interrupt falls between os_exec's call of
\* os_enterCriticalSection and its call of os_leaveCriticalSection, so the
\* ISR never runs while a READY slot lacks its initial frame or its stack
\* cursor; and on each return path os_exec returns with
\* criticalSectionCount at the value it had when os_exec was called.
C16_ExecInCriticalSection ==
  [][/\ call'.op = "ISR" =>
          /\ ~(inCall.at = "os_exec" /\ inCall.line \in 2 .. 7)
          /\ \A p \in ProcessIDs :
               (os_processes[p].state = OS_PS_READY /\ p \in fresh) =>
                 FrameSeeded(p)
     /\ (inCall.at = "os_exec" /\ inCall'.at = "none") =>
          criticalSectionCount' = inCall.count]_vars

\* os_exec called by a running process has returned the slot it filled
C16_Witness ==
  /\ call.op = "os_exec"
  /\ call.ret \in ProcessIDs \ {0}
  /\ InterruptsEnabled
  /\ FrameSeeded(call.ret)
  /\ call.ret \in fresh

(***************************************************************************)
(* Claims about the context switch (checked under Spec).                   *)
(***************************************************************************)
\* C17: a tick stores the interrupted process's stack cursor, taken after
\* its context was saved on its own stack, in its slot and marks it READY;
\* calls the selected strategy; makes the returned id currentProc and marks
\* that slot RUNNING; and loads that slot's saved cursor.  A process that
\* was preempted and is selected resumes with the stack pointer and the
\* registers it had when it was preempted, and after the tick currentProc
\* is the id of the one RUNNING slot.
C17_TickSwitchesContext ==
  [][call'.op = "ISR" =>
       LET next == call'.ret
       IN  /\ os_processes'[currentProc].sp = SP - (CONTEXT_BYTES + 2)
           /\ restoreContext(mem', os_processes'[currentProc].sp) =
                [cpu |-> cpu, sp |-> SP]
           /\ next # currentProc =>
                os_processes'[currentProc].state = OS_PS_READY
           /\ call'.invoked = <<StrategyFunction(currentSchedulingStrategy)>>
           /\ currentProc' = next
           /\ os_processes'[next].state = OS_PS_RUNNING
           /\ {p \in ProcessIDs : os_processes'[p].state = OS_PS_RUNNING}
                = {currentProc'}
           /\ restoreContext(mem', os_processes'[next].sp) =
                [cpu |-> cpu', sp |-> SP']
           /\ next = currentProc => SP' = SP /\ cpu' = cpu
           /\ (next # currentProc /\ saved[next] # NoSave) =>
                SP' = saved[next].sp /\ cpu' = saved[next].cpu]_vars

\* slot 1 resumed, with registers it had changed before it was preempted
C17_Witness ==
  /\ call.op = "ISR"
  /\ currentProc = 1
  /\ cpu.ctx = DirtyContext
  /\ saved[0] # NoSave
  /\ os_processes[0].state = OS_PS_READY

\* the top 35 bytes of slot p's stack region
FrameBytes(p) ==
  (PROCESS_STACK_BOTTOM(p) - (CONTEXT_BYTES + 1)) .. PROCESS_STACK_BOTTOM(p)

\* C18: a successful os_exec changes only the fields of the slot it
\* allocates, which was UNUSED, and the top 35 bytes of that slot's stack
\* region; a failing os_exec changes no slot and no stack byte; every
\* os_exec leaves currentProc, the registry and the strategy selector
\* unchanged.
C18_ExecFrame ==
  [][call'.op = "os_exec" =>
       /\ call'.ret # INVALID_PROCESS =>
            /\ os_processes[call'.ret].state = OS_PS_UNUSED
            /\ \A p \in ProcessIDs \ {call'.ret} :
                 os_processes'[p] = os_processes[p]
            /\ \A a \in Addresses \ FrameBytes(call'.ret) : mem'[a] = mem[a]
            /\ FrameBytes(call'.ret) \subseteq StackRegion(call'.ret)
       /\ call'.ret = INVALID_PROCESS =>
            os_processes' = os_processes /\ mem' = mem
       /\ UNCHANGED <<currentProc, os_programs, currentSchedulingStrategy,
                      os_autostart, SP, cpu>>]_vars

\* a running process has started another one while a third slot holds the
\* saved context of a preempted process
C18_Witness ==
  /\ call.op = "os_exec"
  /\ call.ret = 2
  /\ os_processes[0].state = OS_PS_READY
  /\ os_processes[1].state = OS_PS_RUNNING
  /\ saved[0] # NoSave

(***************************************************************************)
(* main() before os_startScheduler: guard calls, os_exec calls and         *)
(* os_initScheduler in any order, started with the scheduler interrupt     *)
(* masked (TIMSK2 = 0) or unmasked together with another interrupt of      *)
(* timer 2 (TIMSK2 = 6).                                                   *)
(***************************************************************************)
InitUnmask == InitWith({Registry({})}, {1}, {0, 6}, {0}, {170})

NextUnmask ==
  \/ /\ criticalSectionCount < MaxCS \/ criticalSectionCount = UINT8 - 1
     /\ EnterCriticalSection
  \/ criticalSectionCount <= MaxCS /\ LeaveCriticalSection
  \/ ExecCall({0, MAX_NUMBER_OF_PROGRAMS}, {DEFAULT_PRIORITY})
  \/ InitScheduler

SpecUnmask == InitUnmask /\ [][NextUnmask]_vars

\* C19: an os_leaveCriticalSection that brings the counter to 0 leaves the
\* scheduler interrupt unmasked whatever the mask was before, so after
\* every os_exec called at counter 0, and after an os_initScheduler called
\* at counter 0 before os_startScheduler, the scheduler interrupt is
\* unmasked.
C19_LeaveToZeroUnmasks ==
  [][/\ (call'.op = "os_leaveCriticalSection" /\ criticalSectionCount' = 0)
          => ~Masked(TIMSK2')
     /\ (call'.op = "os_exec" /\ criticalSectionCount = 0)
          => ~Masked(TIMSK2')
     /\ (call'.op = "os_initScheduler" /\ criticalSectionCount = 0)
          => ~Masked(TIMSK2')]_vars

\* os_initScheduler has unmasked the interrupt that was masked at reset
C19_Witness ==
  /\ call.op = "os_initScheduler"
  /\ phase = "initialised"
  /\ criticalSectionCount = 0
  /\ TIMSK2 = OCIE2A_MASK

(***************************************************************************)
(* Waiting for the buttons.  A process calls os_waitForInput or            *)
(* os_waitForNoInput and polls; the buttons change and the timer           *)
(* interrupt falls at any time.                                            *)
(***************************************************************************)
\* the loop conditions: TRUE to poll again
os_waitForNoInput_loop(input) == input # 0

\* a loop that polls again whatever the input is
os_waitForInput_loop_forever(input) == TRUE

os_waitForInput_loop(input) == input = 0

WaitFunctions == {"os_waitForInput", "os_waitForNoInput"}

\* port values: nothing pressed, the button on pin 0, on pin 7, on both,
\* and only JTAG pins low
ButtonPatterns ==
  {BitNot(0), BitNot(1), BitNot(GIEB_MASK), BitNot(GIEB_MASK + 1), 195}

WaitFrame ==
  /\ UNCHANGED <<PINC, saved>>
  /\ UNCHANGED <<os_processes, os_programs, os_autostart, currentProc,
                 currentSchedulingStrategy, criticalSectionCount, TIMSK2,
                 SREG, SP, PS, mem, cpu, phase, nest, execOK, fresh>>

WaitCall ==
  \E function \in WaitFunctions :
    /\ Running
    /\ inCall.at = "none"
    /\ inCall' = [NoInCall EXCEPT !.at = function, !.line = 1]
    /\ call' = [NoCall EXCEPT !.op = "call", !.invoked = <<function>>]
    /\ WaitFrame

\* one evaluation of the loop condition: os_getInput is read and the call
\* returns or polls again
WaitPoll ==
  /\ inCall.at \in WaitFunctions
  /\ LET input == os_getInput(PINC)
         again == IF inCall.at = "os_waitForInput"
                  THEN os_waitForInput_loop(input)
                  ELSE os_waitForNoInput_loop(input)
     IN  /\ inCall' = IF again THEN inCall ELSE NoInCall
         /\ call' = [NoCall EXCEPT !.op = IF again THEN "poll" ELSE inCall.at,
                                   !.ret = input]
  /\ WaitFrame

NextWait ==
  \/ inCall.at = "none" /\ InitScheduler
  \/ inCall.at = "none" /\ StartScheduler
  \/ Tick
  \/ Buttons(ButtonPatterns)
  \/ WaitCall
  \/ WaitPoll

\* the waiting process keeps being scheduled: its poll is eventually executed
SpecWait == Init /\ [][NextWait]_vars /\ WF_vars(WaitPoll)

(***************************************************************************)
(* Claims about waiting (checked under SpecWait).                          *)
(***************************************************************************)
Pressed == os_getInput(PINC) # 0

\* C20: os_waitForInput returns only at a poll of os_getInput that was not
\* zero and os_waitForNoInput only at a poll that was zero; neither changes
\* the critical-section counter, the interrupt mask or the interrupt flag,
\* so the timer interrupt stays enabled while a process waits; and a wait
\* does not last forever if from some time on a button stays pressed
\* (os_waitForInput) or no button is pressed (os_waitForNoInput).
C20_WaitReturns ==
  /\ [][/\ call'.op = "os_waitForInput" =>
             call'.ret # 0 /\ call'.ret = os_getInput(PINC)
        /\ call'.op = "os_waitForNoInput" =>
             call'.ret = 0 /\ call'.ret = os_getInput(PINC)
        /\ (inCall.at \in WaitFunctions \/ inCall'.at \in WaitFunctions) =>
             \/ call'.op = "ISR"
             \/ UNCHANGED <<criticalSectionCount, TIMSK2, SREG>>]_vars
  /\ [](inCall.at \in WaitFunctions =>
          InterruptsEnabled /\ ~Masked(TIMSK2))
  /\ (inCall.at = "os_waitForInput") ~>
       (inCall.at # "os_waitForInput" \/ ~Pressed)
  /\ (inCall.at = "os_waitForNoInput") ~>
       (inCall.at # "os_waitForNoInput" \/ Pressed)

\* os_waitForInput has returned at a poll that found a button pressed, in a
\* system in which the idle process has been preempted
C20_Witness ==
  /\ call.op = "os_waitForInput"
  /\ inCall.at = "none"
  /\ Pressed
  /\ saved[0] # NoSave
====
